---- MODULE Spec2Model ----
(***************************************************************************)
(* The multi-file upload pipeline of src/frontend/app.js: the change/drop  *)
(* handlers of initializeUpload, handleMultipleFiles, renderUploadQueue,   *)
(* formatFileSize and handleFileUpload with its follow-up requests.        *)
(*                                                                         *)
(* JavaScript runs one task to completion: an invocation that holds the    *)
(* thread ("running") executes its statements one after another, and the   *)
(* thread is released only where the code awaits an external result (a     *)
(* fetch or a body read).  Events and settlements of other requests are    *)
(* taken only while the thread is free.                                    *)
(***************************************************************************)
EXTENDS Integers, Sequences, FiniteSets, TLC

\* ------------------------------------------------------------------ bounds
\* Number of change/drop events (invocation slots) in a behaviour.
MaxCalls == 2
\* Longest file list a change/drop event carries in Spec and SpecSingle.
MaxFiles == 3
\* Longest file list a change/drop event carries in SpecFilter.
MaxLen == 4

Calls == 1..MaxCalls

\* ------------------------------------------------------------- file names
\* A name is a sequence of one-character strings.
UpperChars == <<"A","B","C","D","E","F","G","H","I","J","K","L","M",
                "N","O","P","Q","R","S","T","U","V","W","X","Y","Z">>
LowerChars == <<"a","b","c","d","e","f","g","h","i","j","k","l","m",
                "n","o","p","q","r","s","t","u","v","w","x","y","z">>

\* String.prototype.toLowerCase on one character.
ToLowerChar(c) ==
    IF \E k \in 1..26 : UpperChars[k] = c
    THEN LowerChars[CHOOSE k \in 1..26 : UpperChars[k] = c]
    ELSE c

toLowerCase(s) == [k \in 1..Len(s) |-> ToLowerChar(s[k])]

\* Index of the last "." of s, 0 when s holds none.
LastDot(s) ==
    IF \E k \in 1..Len(s) : s[k] = "."
    THEN CHOOSE k \in 1..Len(s) : s[k] = "." /\ \A m \in (k+1)..Len(s) : s[m] # "."
    ELSE 0

\* name.split('.').pop(): the part after the last ".", the whole name when
\* the name holds no ".".
SplitPop(s) == SubSeq(s, LastDot(s) + 1, Len(s))

validTypes == << <<".","p","d","f">>, <<".","p","n","g">>, <<".","j","p","g">>,
                 <<".","j","p","e","g">>, <<".","t","i","f","f">> >>

includes(arr, x) == \E k \in 1..Len(arr) : arr[k] = x

\* The callback of files.filter (app.js 215-218).
IsValidFile(file) ==
    LET ext == <<".">> \o toLowerCase(SplitPop(file.name))
    IN  includes(validTypes, ext)

\* Array.prototype.filter with IsValidFile: keeps the order of the input.
RECURSIVE FilterValid(_)
FilterValid(fs) ==
    IF fs = <<>> THEN <<>>
    ELSE IF IsValidFile(Head(fs))
         THEN <<Head(fs)>> \o FilterValid(Tail(fs))
         ELSE FilterValid(Tail(fs))

\* ------------------------------------------------------------ size labels
KiB == 1024
MiB == KiB * KiB

\* Number.prototype.toFixed(1) of num/den for den a power of two: the quotient
\* is exact in a double, and toFixed picks the nearest tenth, the larger one
\* on a tie.  The result is the pair <<integer part, tenth digit>>.
toFixed1(num, den) ==
    LET n == (num * 20 + den) \div (2 * den)
    IN  <<n \div 10, n % 10>>

\* formatFileSize (app.js 293-297); the label is the sequence of its parts.
formatFileSize(bytes) ==
    IF bytes < KiB THEN <<bytes, " B">>
    ELSE IF bytes < KiB * KiB
         THEN <<toFixed1(bytes, KiB)[1], ".", toFixed1(bytes, KiB)[2], " KB">>
         ELSE <<toFixed1(bytes, MiB)[1], ".", toFixed1(bytes, MiB)[2], " MB">>

\* ------------------------------------------------------------------ inputs
SeqsUpTo(S, n) == UNION {[1..k -> S] : k \in 0..n}

Name_c_txt == <<"c",".","t","x","t">>

\* The byte lengths of the files of the first three events.
Sizes == <<500, 2048, 5242880>>

\* The File objects a user can select in the event of slot p, in Spec and
\* SpecSingle: a document of that event, named after the slot (a.pdf, b.pdf,
\* ...), and a text file.
FilesOf(p) ==
    { [name |-> <<LowerChars[p], ".", "p", "d", "f">>,
       size |-> Sizes[((p - 1) % 3) + 1]],
      [name |-> Name_c_txt, size |-> 100] }

\* e.target.files / e.dataTransfer.files of the event of slot p.
InputsOf(p) == SeqsUpTo(FilesOf(p), MaxFiles)

\* The names a user can select in SpecFilter: the recognized extensions in
\* lower and upper case, other extensions, several dots, and no dot at all.
FilterNames ==
    { <<"b",".","p","d","f">>, <<"a",".","p","n","g">>, Name_c_txt,
      <<"d",".","j","p","g">>, <<"e",".","J","P","E","G">>,
      <<"f",".","t","i","f","f">>, <<"g",".","p","d","f",".","t","x","t">>,
      <<"p","d","f">>, <<"P","N","G">> }

FilterFiles == { [name |-> n, size |-> Sizes[(Len(n) % 3) + 1]] : n \in FilterNames }

FilterInputs == SeqsUpTo(FilterFiles, MaxLen)

\* What response.json() of an ok /upload-ocr response for `file` settles to:
\* a rejection (parsed FALSE: the body is no JSON) or a parsed body with the
\* fields the client reads (app.js 321-325, 438-447).  text <<>> is the empty
\* string, category "" an absent category; metadata and confidence tell
\* whether the body has these objects.
MalformedBody ==
    [parsed |-> FALSE, doc_id |-> <<>>, text |-> <<>>, metadata |-> FALSE,
     confidence |-> FALSE, category |-> ""]

OcrBodies(file) ==
    { MalformedBody,
      [parsed |-> TRUE, doc_id |-> file.name, text |-> file.name,
       metadata |-> TRUE, confidence |-> TRUE, category |-> "Circular"],
      [parsed |-> TRUE, doc_id |-> file.name, text |-> file.name,
       metadata |-> FALSE, confidence |-> TRUE, category |-> ""],
      [parsed |-> TRUE, doc_id |-> file.name, text |-> file.name,
       metadata |-> TRUE, confidence |-> FALSE, category |-> "Circular"],
      [parsed |-> TRUE, doc_id |-> file.name, text |-> <<>>,
       metadata |-> TRUE, confidence |-> TRUE, category |-> ""] }

\* How a fetch settles: it rejects, or resolves with response.ok false or true.
FetchOutcomes == {"reject", "notok", "ok"}

\* How response.json() of /summarize-all settles: it rejects, or resolves
\* with a body that has or lacks the field summaries.
SumBodies == {"malformed", "summaries", "nosummaries"}

\* How response.json() of /extract settles.
ExtBodies == {"malformed", "actions"}

NoSummaries == [kind |-> "empty", of |-> <<>>]

\* ------------------------------------------------------------------- state
VARIABLES
    uploadQueue,      \* app.js 24: the module-level queue
    currentDocument,  \* app.js 10-15
    rendered,         \* what renderUploadQueue last wrote to queueList
    toasts,           \* the showToast calls of the pipeline, in order
    running,          \* the call stack: <<p>> while invocation p runs, else <<>>
    pc,               \* per invocation: its position in the code
    files,            \* per invocation: parameter files, until its last use
    validFiles,       \* per invocation: const validFiles (app.js 215)
    i,                \* per invocation: the loop variable (app.js 245)
    upFile,           \* per invocation: parameter file of handleFileUpload
    sumText,          \* per invocation: text sent to /summarize-all
    sent,             \* per invocation: the files it posted to /upload-ocr
    outcomes,         \* per invocation: how each handleFileUpload call ended
    ocrResult,        \* per invocation: how the /upload-ocr exchange of the
                      \* current loop iteration went
    queueOwner,       \* <<p>> for the invocation that assigned uploadQueue
    lastOther         \* the last operation outside the upload pipeline that ran

vars == <<uploadQueue, currentDocument, rendered, toasts, running, pc, files,
          validFiles, i, upFile, sumText, sent, outcomes, ocrResult,
          queueOwner, lastOther>>

NoFile == [name |-> <<>>, size |-> 0]

Init ==
    /\ uploadQueue = <<>>
    /\ currentDocument = [docId |-> <<>>, text |-> <<>>,
                          summaries |-> NoSummaries, category |-> ""]
    /\ rendered = <<>>
    /\ toasts = <<>>
    /\ running = <<>>
    /\ pc = [p \in Calls |-> "idle"]
    /\ files = [p \in Calls |-> <<>>]
    /\ validFiles = [p \in Calls |-> <<>>]
    /\ i = [p \in Calls |-> 0]
    /\ upFile = [p \in Calls |-> NoFile]
    /\ sumText = [p \in Calls |-> <<>>]
    /\ sent = [p \in Calls |-> <<>>]
    /\ outcomes = [p \in Calls |-> <<>>]
    /\ ocrResult = [p \in Calls |-> "none"]
    /\ queueOwner = <<>>
    /\ lastOther = "none"

\* Positions at which an invocation of handleMultipleFiles is over ("skipped":
\* the event carried no file and the function was never called).
Finished == {"skipped", "invalid", "complete", "rejected"}
\* Positions at which an invocation is suspended on an external result.
Awaiting == {"awaitOcr", "awaitOcrJson", "awaitSum", "awaitSumJson",
             "awaitExt", "awaitExtJson"}

Draining(p) == pc[p] \notin Finished \cup {"idle"}

\* ------------------------------------------------------- helper operations
\* Mutant of SetStatus: the write replaces the item by a new one that keeps
\* only the file and the new status.
SetStatus_NewItem(q, k, st) ==
    [q EXCEPT ![k + 1] = [id |-> 0, file |-> @.file, name |-> <<>>,
                          size |-> <<>>, status |-> st]]

\* uploadQueue[k].status = st for the 0-based index k.
SetStatus(q, k, st) == [q EXCEPT ![k + 1].status = st]

\* renderUploadQueue (app.js 263-291): queueList shows, per item and in queue
\* order, the item's name, size label and status.
renderUploadQueue(q) ==
    [k \in 1..Len(q) |-> [name |-> q[k].name, size |-> q[k].size,
                          status |-> q[k].status]]

\* Mutant of MakeQueue: ids counted from 1.
MakeQueue_OneBased(vf) ==
    [k \in 1..Len(vf) |-> [id |-> k, file |-> vf[k], name |-> vf[k].name,
                           size |-> formatFileSize(vf[k].size),
                           status |-> "pending"]]

\* validFiles.map((file, index) => ({...})) (app.js 234-240).
MakeQueue(vf) ==
    [k \in 1..Len(vf) |-> [id |-> k - 1, file |-> vf[k], name |-> vf[k].name,
                           size |-> formatFileSize(vf[k].size),
                           status |-> "pending"]]

\* showToast(type, title, ...) called by invocation p; n is the number the
\* message carries (0 when it carries none).
Toast(type, title, n, p) == [type |-> type, title |-> title, n |-> n, by |-> p]

\* `if (!currentDocument.text) return;` (app.js 501, 555).
Falsy(text) == text = <<>>

\* ------------------------------------------------------------------ events
\* Mutant of FileEvent: the handler calls handleMultipleFiles without testing
\* files.length.
FileEvent_NoGuard(p, S) ==
    /\ running = <<>>
    /\ pc[p] = "idle"
    /\ \A q \in Calls : q < p => pc[q] # "idle"
    /\ \E fs \in S :
          /\ files' = [files EXCEPT ![p] = fs]
          /\ pc' = [pc EXCEPT ![p] = "filter"]
          /\ running' = <<p>>
    /\ UNCHANGED <<uploadQueue, currentDocument, rendered, toasts, validFiles,
                   i, upFile, sumText, sent, outcomes, ocrResult, queueOwner,
                   lastOther>>

\* The change and drop handlers (app.js 186-190, 202-208): the event of slot p
\* carries one of the lists of S; handleMultipleFiles is called only for a
\* non-empty list.  Slots are used in order.
FileEvent(p, S) ==
    /\ running = <<>>
    /\ pc[p] = "idle"
    /\ \A q \in Calls : q < p => pc[q] # "idle"
    /\ \E fs \in S :
          /\ files' = [files EXCEPT ![p] = fs]
          /\ IF Len(fs) > 0
             THEN /\ pc' = [pc EXCEPT ![p] = "filter"]
                  /\ running' = <<p>>
             ELSE /\ pc' = [pc EXCEPT ![p] = "skipped"]
                  /\ running' = <<>>
    /\ UNCHANGED <<uploadQueue, currentDocument, rendered, toasts, validFiles,
                   i, upFile, sumText, sent, outcomes, ocrResult, queueOwner,
                   lastOther>>

\* Mutant of Filter: the empty result is reported but the function does not
\* return.
Filter_NoReturn(p) ==
    /\ running = <<p>>
    /\ pc[p] = "filter"
    /\ validFiles' = [validFiles EXCEPT ![p] = FilterValid(files[p])]
    /\ toasts' = IF Len(FilterValid(files[p])) = 0
                 THEN Append(toasts, Toast("error", "Invalid Files", 0, p))
                 ELSE toasts
    /\ pc' = [pc EXCEPT ![p] = "enqueue"]
    /\ UNCHANGED <<uploadQueue, currentDocument, rendered, running, files, i,
                   upFile, sumText, sent, outcomes, ocrResult, queueOwner,
                   lastOther>>

\* app.js 215-223: filter; an empty result is reported and the call returns
\* (its parameter files goes with it).
Filter(p) ==
    /\ running = <<p>>
    /\ pc[p] = "filter"
    /\ validFiles' = [validFiles EXCEPT ![p] = FilterValid(files[p])]
    /\ IF Len(FilterValid(files[p])) = 0
       THEN /\ toasts' = Append(toasts, Toast("error", "Invalid Files", 0, p))
            /\ pc' = [pc EXCEPT ![p] = "invalid"]
            /\ running' = <<>>
            /\ files' = [files EXCEPT ![p] = <<>>]
       ELSE /\ pc' = [pc EXCEPT ![p] = "enqueue"]
            /\ UNCHANGED <<toasts, running, files>>
    /\ UNCHANGED <<uploadQueue, currentDocument, rendered, i, upFile,
                   sumText, sent, outcomes, ocrResult, queueOwner,
                   lastOther>>

\* Mutant of Enqueue: the new items are appended to the existing queue.
Enqueue_Append(p) ==
    /\ running = <<p>>
    /\ pc[p] = "enqueue"
    /\ uploadQueue' = uploadQueue \o MakeQueue(validFiles[p])
    /\ queueOwner' = <<p>>
    /\ pc' = [pc EXCEPT ![p] = "render242"]
    /\ UNCHANGED <<currentDocument, rendered, toasts, running, files,
                   validFiles, i, upFile, sumText, sent, outcomes, ocrResult,
                   lastOther>>

\* app.js 234-240: the global is assigned a new array.
Enqueue(p) ==
    /\ running = <<p>>
    /\ pc[p] = "enqueue"
    /\ uploadQueue' = MakeQueue(validFiles[p])
    /\ queueOwner' = <<p>>
    /\ pc' = [pc EXCEPT ![p] = "render242"]
    /\ UNCHANGED <<currentDocument, rendered, toasts, running, files,
                   validFiles, i, upFile, sumText, sent, outcomes, ocrResult,
                   lastOther>>

\* Mutant of Render242: the loop starts at index 1.
Render242_StartAtOne(p) ==
    /\ running = <<p>>
    /\ pc[p] = "render242"
    /\ rendered' = renderUploadQueue(uploadQueue)
    /\ i' = [i EXCEPT ![p] = 1]
    /\ pc' = [pc EXCEPT ![p] = "loop"]
    /\ UNCHANGED <<uploadQueue, currentDocument, toasts, running, files,
                   validFiles, upFile, sumText, sent, outcomes, ocrResult,
                   queueOwner,
                   lastOther>>

\* app.js 242, then `let i = 0` of line 245.
Render242(p) ==
    /\ running = <<p>>
    /\ pc[p] = "render242"
    /\ rendered' = renderUploadQueue(uploadQueue)
    /\ i' = [i EXCEPT ![p] = 0]
    /\ pc' = [pc EXCEPT ![p] = "loop"]
    /\ UNCHANGED <<uploadQueue, currentDocument, toasts, running, files,
                   validFiles, upFile, sumText, sent, outcomes, ocrResult, queueOwner,
                   lastOther>>

\* app.js 245: `i < uploadQueue.length` reads the global as it is now.
LoopTest(p) ==
    /\ running = <<p>>
    /\ pc[p] = "loop"
    /\ pc' = [pc EXCEPT ![p] = IF i[p] < Len(uploadQueue)
                               THEN "setProcessing" ELSE "toast"]
    /\ UNCHANGED <<uploadQueue, currentDocument, rendered, toasts, running,
                   files, validFiles, i, upFile, sumText, sent, outcomes, ocrResult, queueOwner,
                   lastOther>>

\* Mutant of SetProcessing: the index is off by one (the item before i).
SetProcessing_OffByOne(p) ==
    /\ running = <<p>>
    /\ pc[p] = "setProcessing"
    /\ uploadQueue' = SetStatus(uploadQueue, IF i[p] > 0 THEN i[p] - 1 ELSE 0,
                                "processing")
    /\ pc' = [pc EXCEPT ![p] = "render247"]
    /\ UNCHANGED <<currentDocument, rendered, toasts, running, files,
                   validFiles, i, upFile, sumText, sent, outcomes, ocrResult, queueOwner,
                   lastOther>>

\* app.js 246.
SetProcessing(p) ==
    /\ running = <<p>>
    /\ pc[p] = "setProcessing"
    /\ uploadQueue' = SetStatus(uploadQueue, i[p], "processing")
    /\ pc' = [pc EXCEPT ![p] = "render247"]
    /\ UNCHANGED <<currentDocument, rendered, toasts, running, files,
                   validFiles, i, upFile, sumText, sent, outcomes, ocrResult, queueOwner,
                   lastOther>>

\* Mutant of Render247: renderUploadQueue is not called after the write of
\* 'processing'.
Render247_NoRender(p) ==
    /\ running = <<p>>
    /\ pc[p] = "render247"
    /\ pc' = [pc EXCEPT ![p] = "callUpload"]
    /\ UNCHANGED <<uploadQueue, currentDocument, rendered, toasts, running,
                   files, validFiles, i, upFile, sumText, sent, outcomes,
                   ocrResult, queueOwner,
                   lastOther>>

\* app.js 247.
Render247(p) ==
    /\ running = <<p>>
    /\ pc[p] = "render247"
    /\ rendered' = renderUploadQueue(uploadQueue)
    /\ pc' = [pc EXCEPT ![p] = "callUpload"]
    /\ UNCHANGED <<uploadQueue, currentDocument, toasts, running, files,
                   validFiles, i, upFile, sumText, sent, outcomes, ocrResult, queueOwner,
                   lastOther>>

\* app.js 250 and 299-312: handleFileUpload(uploadQueue[i].file) runs up to
\* its fetch of /upload-ocr, where the thread is released.  The parameter
\* files of handleMultipleFiles, last read at line 215, is dropped here.
CallUpload(p) ==
    /\ running = <<p>>
    /\ pc[p] = "callUpload"
    /\ upFile' = [upFile EXCEPT ![p] = uploadQueue[i[p] + 1].file]
    /\ sent' = [sent EXCEPT ![p] = Append(@, uploadQueue[i[p] + 1].file)]
    /\ files' = [files EXCEPT ![p] = <<>>]
    /\ ocrResult' = [ocrResult EXCEPT ![p] = "sent"]
    /\ pc' = [pc EXCEPT ![p] = "awaitOcr"]
    /\ running' = <<>>
    /\ UNCHANGED <<uploadQueue, currentDocument, rendered, toasts,
                   validFiles, i, sumText, outcomes, queueOwner,
                   lastOther>>

\* ------------------------------------------------- handleFileUpload, resumed
\* handleFileUpload of invocation p throws: control resumes in the catch of
\* handleMultipleFiles (app.js 252) without releasing the thread.
UploadThrows(p) ==
    /\ pc' = [pc EXCEPT ![p] = "setError"]
    /\ running' = <<p>>
    /\ outcomes' = [outcomes EXCEPT ![p] = Append(@, "threw")]
    /\ upFile' = [upFile EXCEPT ![p] = NoFile]
    /\ sumText' = [sumText EXCEPT ![p] = <<>>]

\* handleFileUpload of invocation p returns (app.js 347): control resumes at
\* line 251 without releasing the thread.
UploadReturns(p) ==
    /\ pc' = [pc EXCEPT ![p] = "setDone"]
    /\ running' = <<p>>
    /\ outcomes' = [outcomes EXCEPT ![p] = Append(@, "returned")]
    /\ upFile' = [upFile EXCEPT ![p] = NoFile]
    /\ sumText' = [sumText EXCEPT ![p] = <<>>]

\* handleFileUpload of invocation p awaits the next external result.
Suspend(p, at) ==
    /\ pc' = [pc EXCEPT ![p] = at]
    /\ running' = <<>>
    /\ UNCHANGED <<outcomes, upFile>>

\* app.js 309-318: the fetch of /upload-ocr settles.  A rejection and a
\* response that is not ok both throw out of handleFileUpload; an ok response
\* is read with json().
OcrSettle(p, o) ==
    /\ running = <<>>
    /\ pc[p] = "awaitOcr"
    /\ ocrResult' = [ocrResult EXCEPT ![p] = o]
    /\ IF o = "ok"
       THEN Suspend(p, "awaitOcrJson") /\ UNCHANGED sumText
       ELSE UploadThrows(p)
    /\ UNCHANGED <<uploadQueue, currentDocument, rendered, toasts, files,
                   validFiles, i, sent, queueOwner,
                   lastOther>>

\* currentDocument after app.js 321-322.
StoreDocument(doc, data) == [doc EXCEPT !.docId = data.doc_id, !.text = data.text]

\* currentDocument after app.js 438-440 (displayOCRResults).
StoreCategory(doc, data) ==
    IF data.category # "" THEN [doc EXCEPT !.category = data.category] ELSE doc

\* app.js 318-341: response.json() settles.  The statements up to the first
\* fetch of generateSummaries run in one go: the document is stored (321-322),
\* data.metadata is read (325, a TypeError when absent), displayOCRResults
\* stores the category and reads data.confidence (439-446, a TypeError when
\* absent), and generateSummaries and extractActions return at once when the
\* stored text is empty (501, 555).
OcrJsonSettle(p, data) ==
    /\ running = <<>>
    /\ pc[p] = "awaitOcrJson"
    /\ ocrResult' = [ocrResult EXCEPT ![p] = IF data.parsed THEN "body"
                                                            ELSE "malformed"]
    /\ IF ~data.parsed
       THEN /\ UploadThrows(p)
            /\ UNCHANGED currentDocument
       ELSE IF ~data.metadata
       THEN /\ currentDocument' = StoreDocument(currentDocument, data)
            /\ UploadThrows(p)
       ELSE IF ~data.confidence
       THEN /\ currentDocument' =
                   StoreCategory(StoreDocument(currentDocument, data), data)
            /\ UploadThrows(p)
       ELSE /\ currentDocument' =
                   StoreCategory(StoreDocument(currentDocument, data), data)
            /\ IF Falsy(data.text)
               THEN UploadReturns(p)
               ELSE /\ Suspend(p, "awaitSum")
                    /\ sumText' = [sumText EXCEPT ![p] = data.text]
    /\ UNCHANGED <<uploadQueue, rendered, toasts, files, validFiles, i,
                   sent, queueOwner,
                   lastOther>>

\* app.js 342 and 554-567: generateSummaries has returned and extractActions is
\* entered with the document `doc`: it returns at once on an empty text (and
\* handleFileUpload returns, 345-347), else it suspends on its fetch.
EnterExtract(p, doc) ==
    IF Falsy(doc.text)
    THEN UploadReturns(p)
    ELSE Suspend(p, "awaitExt") /\ UNCHANGED sumText

\* app.js 509-515, 522-527: the fetch of /summarize-all settles; a rejection
\* is caught, any response (response.ok is not read) is read with json().
SumSettle(p, o) ==
    /\ running = <<>>
    /\ pc[p] = "awaitSum"
    /\ IF o = "reject"
       THEN EnterExtract(p, currentDocument)
       ELSE Suspend(p, "awaitSumJson") /\ UNCHANGED sumText
    /\ UNCHANGED <<uploadQueue, currentDocument, rendered, toasts, files,
                   validFiles, i, sent, ocrResult, queueOwner,
                   lastOther>>

\* currentDocument after app.js 516 for the body b of the request that
\* carried `text`.
StoreSummaries(doc, b, text) ==
    IF b = "summaries"
    THEN [doc EXCEPT !.summaries = [kind |-> "summary", of |-> text]]
    ELSE IF b = "nosummaries"
    THEN [doc EXCEPT !.summaries = [kind |-> "undefined", of |-> <<>>]]
    ELSE doc

\* app.js 515-527: json() of /summarize-all settles.  A rejection is caught;
\* else data.summaries is stored, and the TypeError of displaySummary on an
\* undefined summaries (532) is caught as well.
SumJsonSettle(p, b) ==
    /\ running = <<>>
    /\ pc[p] = "awaitSumJson"
    /\ currentDocument' = StoreSummaries(currentDocument, b, sumText[p])
    /\ EnterExtract(p, currentDocument)
    /\ UNCHANGED <<uploadQueue, rendered, toasts, files, validFiles, i,
                   sent, ocrResult, queueOwner,
                   lastOther>>

\* app.js 563-569, 572-577: the fetch of /extract settles.
ExtSettle(p, o) ==
    /\ running = <<>>
    /\ pc[p] = "awaitExt"
    /\ IF o = "reject"
       THEN UploadReturns(p)
       ELSE Suspend(p, "awaitExtJson") /\ UNCHANGED sumText
    /\ UNCHANGED <<uploadQueue, currentDocument, rendered, toasts, files,
                   validFiles, i, sent, ocrResult, queueOwner,
                   lastOther>>

\* app.js 569-577, 345-347: json() of /extract settles; both outcomes end
\* extractActions normally, and handleFileUpload returns (loadStats is not
\* awaited and writes none of the modelled state).
ExtJsonSettle(p, b) ==
    /\ running = <<>>
    /\ pc[p] = "awaitExtJson"
    /\ UploadReturns(p)
    /\ UNCHANGED <<uploadQueue, currentDocument, rendered, toasts, files,
                   validFiles, i, sent, ocrResult, queueOwner,
                   lastOther>>

\* ---------------------------------------------- handleMultipleFiles, resumed
\* Mutant of SetDone: the status is not written on success.
SetDone_NoWrite(p) ==
    /\ running = <<p>>
    /\ pc[p] = "setDone"
    /\ pc' = [pc EXCEPT ![p] = IF i[p] < Len(uploadQueue)
                               THEN "render257" ELSE "setError"]
    /\ UNCHANGED <<uploadQueue, currentDocument, rendered, toasts, running,
                   files, validFiles, i, upFile, sumText, sent, outcomes, ocrResult,
                   queueOwner,
                   lastOther>>

\* app.js 251: uploadQueue[i].status = 'done'.  uploadQueue[i] is undefined
\* when the global now holds a shorter array: the TypeError is thrown inside
\* the try and control goes to the catch.
SetDone(p) ==
    /\ running = <<p>>
    /\ pc[p] = "setDone"
    /\ IF i[p] < Len(uploadQueue)
       THEN /\ uploadQueue' = SetStatus(uploadQueue, i[p], "done")
            /\ pc' = [pc EXCEPT ![p] = "render257"]
       ELSE /\ pc' = [pc EXCEPT ![p] = "setError"]
            /\ UNCHANGED uploadQueue
    /\ UNCHANGED <<currentDocument, rendered, toasts, running, files,
                   validFiles, i, upFile, sumText, sent, outcomes, ocrResult, queueOwner,
                   lastOther>>

\* Mutant of SetError: the catch puts the item back to 'pending'.
SetError_WritesPending(p) ==
    /\ running = <<p>>
    /\ pc[p] = "setError"
    /\ IF i[p] < Len(uploadQueue)
       THEN /\ uploadQueue' = SetStatus(uploadQueue, i[p], "pending")
            /\ pc' = [pc EXCEPT ![p] = "render257"]
            /\ UNCHANGED running
       ELSE /\ pc' = [pc EXCEPT ![p] = "rejected"]
            /\ running' = <<>>
            /\ UNCHANGED uploadQueue
    /\ UNCHANGED <<currentDocument, rendered, toasts, files, validFiles, i,
                   upFile, sumText, sent, outcomes, ocrResult, queueOwner,
                   lastOther>>

\* Mutant of SetError: the catch writes 'done'.
SetError_WritesDone(p) ==
    /\ running = <<p>>
    /\ pc[p] = "setError"
    /\ IF i[p] < Len(uploadQueue)
       THEN /\ uploadQueue' = SetStatus(uploadQueue, i[p], "done")
            /\ pc' = [pc EXCEPT ![p] = "render257"]
            /\ UNCHANGED running
       ELSE /\ pc' = [pc EXCEPT ![p] = "rejected"]
            /\ running' = <<>>
            /\ UNCHANGED uploadQueue
    /\ UNCHANGED <<currentDocument, rendered, toasts, files, validFiles, i,
                   upFile, sumText, sent, outcomes, ocrResult, queueOwner,
                   lastOther>>

\* app.js 253-254: uploadQueue[i].status = 'error' in the catch.  On an
\* undefined uploadQueue[i] the TypeError leaves the async function: its
\* promise rejects and the invocation is over.
SetError(p) ==
    /\ running = <<p>>
    /\ pc[p] = "setError"
    /\ IF i[p] < Len(uploadQueue)
       THEN /\ uploadQueue' = SetStatus(uploadQueue, i[p], "error")
            /\ pc' = [pc EXCEPT ![p] = "render257"]
            /\ UNCHANGED running
       ELSE /\ pc' = [pc EXCEPT ![p] = "rejected"]
            /\ running' = <<>>
            /\ UNCHANGED uploadQueue
    /\ UNCHANGED <<currentDocument, rendered, toasts, files, validFiles, i,
                   upFile, sumText, sent, outcomes, ocrResult, queueOwner,
                   lastOther>>

\* Mutant of Render257: the index stays on an item that ended in 'error', so
\* the loop submits it again.
Render257_RetryOnError(p) ==
    /\ running = <<p>>
    /\ pc[p] = "render257"
    /\ rendered' = renderUploadQueue(uploadQueue)
    /\ i' = [i EXCEPT ![p] = IF uploadQueue[@ + 1].status = "error"
                             THEN @ ELSE @ + 1]
    /\ ocrResult' = [ocrResult EXCEPT ![p] = "none"]
    /\ pc' = [pc EXCEPT ![p] = "loop"]
    /\ UNCHANGED <<uploadQueue, currentDocument, toasts, running, files,
                   validFiles, upFile, sumText, sent, outcomes, queueOwner,
                   lastOther>>

\* Mutant of Render257: renderUploadQueue is not called after the write of
\* 'done' or 'error'.
Render257_NoRender(p) ==
    /\ running = <<p>>
    /\ pc[p] = "render257"
    /\ i' = [i EXCEPT ![p] = @ + 1]
    /\ ocrResult' = [ocrResult EXCEPT ![p] = "none"]
    /\ pc' = [pc EXCEPT ![p] = "loop"]
    /\ UNCHANGED <<uploadQueue, currentDocument, rendered, toasts, running,
                   files, validFiles, upFile, sumText, sent, outcomes,
                   queueOwner,
                   lastOther>>

\* app.js 257, then `i++` of line 245.
Render257(p) ==
    /\ running = <<p>>
    /\ pc[p] = "render257"
    /\ rendered' = renderUploadQueue(uploadQueue)
    /\ i' = [i EXCEPT ![p] = @ + 1]
    /\ ocrResult' = [ocrResult EXCEPT ![p] = "none"]
    /\ pc' = [pc EXCEPT ![p] = "loop"]
    /\ UNCHANGED <<uploadQueue, currentDocument, toasts, running, files,
                   validFiles, upFile, sumText, sent, outcomes, queueOwner,
                   lastOther>>

\* app.js 260: the number is validFiles.length of this invocation.
ToastComplete(p) ==
    /\ running = <<p>>
    /\ pc[p] = "toast"
    /\ toasts' = Append(toasts,
                        Toast("success", "Upload Complete", Len(validFiles[p]), p))
    /\ pc' = [pc EXCEPT ![p] = "complete"]
    /\ running' = <<>>
    /\ UNCHANGED <<uploadQueue, currentDocument, rendered, files, validFiles,
                   i, upFile, sumText, sent, outcomes, ocrResult, queueOwner,
                   lastOther>>

\* ----------------------------------------------------------- specifications
\* The steps of an invocation other than its event.
Step(p) ==
    \/ Filter(p) \/ Enqueue(p) \/ Render242(p) \/ LoopTest(p)
    \/ SetProcessing(p) \/ Render247(p) \/ CallUpload(p)
    \/ \E o \in FetchOutcomes : OcrSettle(p, o)
    \/ \E data \in OcrBodies(upFile[p]) : OcrJsonSettle(p, data)
    \/ \E o \in FetchOutcomes : SumSettle(p, o)
    \/ \E b \in SumBodies : SumJsonSettle(p, b)
    \/ \E o \in FetchOutcomes : ExtSettle(p, o)
    \/ \E b \in ExtBodies : ExtJsonSettle(p, b)
    \/ SetDone(p) \/ SetError(p) \/ Render257(p) \/ ToastComplete(p)

\* Any sequence of events: a new event may arrive whenever the thread is free,
\* also while earlier invocations are suspended.
Next ==
    \E p \in Calls : FileEvent(p, InputsOf(p)) \/ Step(p)

Spec == Init /\ [][Next]_vars

\* One batch at a time: an event arrives only when no invocation is draining.
NextSingle ==
    \E p \in Calls :
        \/ /\ \A q \in Calls : ~Draining(q)
           /\ FileEvent(p, InputsOf(p))
        \/ Step(p)

SpecSingle == Init /\ [][NextSingle]_vars

\* One event with any list of FilterInputs, followed to the first suspension
\* of handleMultipleFiles (app.js 211-250).
NextFilter ==
    \/ FileEvent(1, FilterInputs)
    \/ Filter(1) \/ Enqueue(1) \/ Render242(1) \/ LoopTest(1)
    \/ SetProcessing(1) \/ Render247(1) \/ CallUpload(1)

SpecFilter == Init /\ [][NextFilter]_vars

\* ================================================================== claims
Processing(q) == {k \in 1..Len(q) : q[k].status = "processing"}

Terminal(st) == st \in {"done", "error"}

Statuses(q) == [k \in 1..Len(q) |-> q[k].status]

NamesOf(fs) == [k \in 1..Len(fs) |-> fs[k].name]

\* The positions in toasts of the 'Upload Complete' toasts of invocation p.
CompleteToasts(p) ==
    {t \in 1..Len(toasts) : toasts[t].by = p /\ toasts[t].title = "Upload Complete"}

\* The positions in toasts of the 'Invalid Files' toasts of invocation p.
ErrorToasts(p) ==
    {t \in 1..Len(toasts) : toasts[t].by = p /\ toasts[t].title = "Invalid Files"}

\* C1 (SpecSingle): with one batch draining at a time, at most one item of
\* uploadQueue has status 'processing' in every state, and so has every
\* snapshot renderUploadQueue has shown.
C1_SingleInFlight ==
    /\ Cardinality(Processing(uploadQueue)) <= 1
    /\ Cardinality(Processing(rendered)) <= 1

\* A rendered three-item queue whose first item is resolved, whose second is
\* in flight and whose third waits.
C1_Witness ==
    /\ Len(uploadQueue) = 3
    /\ Terminal(uploadQueue[1].status)
    /\ uploadQueue[2].status = "processing"
    /\ uploadQueue[3].status = "pending"
    /\ rendered = renderUploadQueue(uploadQueue)
    /\ \E p \in Calls : pc[p] = "awaitOcr"

\* C2 (Spec): for any sequence of submissions, overlapping ones included, at
\* most one item of the current uploadQueue has status 'processing'.
C2_SingleInFlightOverlap ==
    Cardinality(Processing(uploadQueue)) <= 1

\* C3 (SpecSingle): with one batch draining at a time, an item that is 'done'
\* or 'error' keeps that status in every later state of its queue.
C3_TerminalMonotonic ==
    [][\A k \in 1..Len(uploadQueue) :
          (queueOwner' = queueOwner /\ Terminal(uploadQueue[k].status))
             => /\ Len(uploadQueue') >= k
                /\ uploadQueue'[k].status = uploadQueue[k].status]_vars

\* A finished batch of three whose first item failed and whose later items
\* were processed after it.
C3_Witness ==
    \E p \in Calls :
        /\ pc[p] = "complete"
        /\ queueOwner = <<p>>
        /\ Statuses(uploadQueue) = <<"error", "done", "error">>

\* C4 (Spec): for any sequence of submissions, overlapping ones included, an
\* item of the current uploadQueue that is 'done' or 'error' never has another
\* status afterwards.
C4_TerminalMonotonicOverlap ==
    [][\A k \in 1..Len(uploadQueue) :
          (queueOwner' = queueOwner /\ Terminal(uploadQueue[k].status))
             => /\ k <= Len(uploadQueue')
                /\ uploadQueue'[k].status = uploadQueue[k].status]_vars

\* C5 (SpecSingle): when handleMultipleFiles finishes a batch that no other
\* submission overlapped, every item was attempted once and in order, item k
\* is 'error' exactly when handleFileUpload threw for it and 'done' otherwise,
\* and the completion toast carries the number of items.
C5_FailureIsolation ==
    \A p \in Calls :
        (pc[p] = "complete" /\ queueOwner = <<p>>) =>
            /\ Len(uploadQueue) = Len(validFiles[p])
            /\ sent[p] = validFiles[p]
            /\ Len(outcomes[p]) = Len(validFiles[p])
            /\ \A k \in 1..Len(uploadQueue) :
                  uploadQueue[k].status =
                      IF outcomes[p][k] = "threw" THEN "error" ELSE "done"
            /\ \E t \in CompleteToasts(p) : toasts[t].n = Len(validFiles[p])

\* Outcomes [success, failure, success] ended as [done, error, done], reported
\* with the number 3.
C5_Witness ==
    \E p \in Calls :
        /\ pc[p] = "complete"
        /\ queueOwner = <<p>>
        /\ outcomes[p] = <<"returned", "threw", "returned">>
        /\ Statuses(uploadQueue) = <<"done", "error", "done">>
        /\ \E t \in CompleteToasts(p) : toasts[t].n = 3

\* C6 (Spec): for every accepted batch the 'Upload Complete' toast is emitted
\* exactly once (never twice, and once the invocation is over it has been
\* emitted), only after every enqueued item was resolved, and it carries the
\* number of filtered files of the batch.
C6_CompletionSignal ==
    \A p \in Calls :
        /\ Cardinality(CompleteToasts(p)) <= 1
        /\ pc[p] \in {"complete", "rejected"} => Cardinality(CompleteToasts(p)) = 1
        /\ \A t \in CompleteToasts(p) :
              /\ toasts[t].n = Len(validFiles[p])
              /\ Len(outcomes[p]) = Len(validFiles[p])
              /\ queueOwner = <<p>> =>
                    \A k \in 1..Len(uploadQueue) : Terminal(uploadQueue[k].status)

\* The extension of a name as the specification defines it: the text after the
\* final ".", lower-cased; a name without "." has none.
HasRecognizedExtension(name) ==
    /\ LastDot(name) > 0
    /\ toLowerCase(SubSeq(name, LastDot(name) + 1, Len(name))) \in
          { <<"p","d","f">>, <<"p","n","g">>, <<"j","p","g">>,
            <<"j","p","e","g">>, <<"t","i","f","f">> }

RecognizedFile(f) == HasRecognizedExtension(f.name)

\* C7 (SpecFilter): the files handleMultipleFiles keeps are exactly the inputs
\* whose extension is one of pdf, png, jpg, jpeg, tiff, in their order; every
\* other input is dropped.
C7_FilterCorrect ==
    \A p \in Calls :
        pc[p] \in {"enqueue", "render242", "loop", "setProcessing",
                   "render247", "callUpload"}
            => /\ validFiles[p] = SelectSeq(files[p], RecognizedFile)
               /\ (pc[p] # "enqueue" =>
                      [k \in 1..Len(uploadQueue) |-> uploadQueue[k].file]
                          = SelectSeq(files[p], RecognizedFile))

Example_b_pdf == <<"b",".","p","d","f">>
Example_a_png == <<"a",".","p","n","g">>
Example_d_jpg == <<"d",".","j","p","g">>

\* The queue handleMultipleFiles builds from validFiles: one item per file in
\* order, ids 0, 1, 2, ..., all 'pending'.
FreshQueueOf(q, vf) ==
    /\ Len(q) = Len(vf)
    /\ \A k \in 1..Len(q) :
          /\ q[k].id = k - 1
          /\ q[k].file = vf[k]
          /\ q[k].name = vf[k].name
          /\ q[k].status = "pending"

\* C8 (SpecFilter): right after an accepted submission uploadQueue has one
\* item per filtered file in filter order, with ids 0, 1, 2, ... and status
\* 'pending', and this queue has been rendered when the first item is about to
\* enter 'processing'; [b.pdf, a.png, c.txt, d.jpg] gives [b.pdf, a.png, d.jpg]
\* with ids 0, 1, 2.
C8_Enqueue ==
    \A p \in Calls :
        /\ pc[p] \in {"render242", "loop", "setProcessing"} /\ outcomes[p] = <<>>
              => /\ FreshQueueOf(uploadQueue, validFiles[p])
                 /\ NamesOf(files[p]) =
                        <<Example_b_pdf, Example_a_png, Name_c_txt, Example_d_jpg>>
                      => /\ NamesOf(uploadQueue) =
                               <<Example_b_pdf, Example_a_png, Example_d_jpg>>
                         /\ [k \in 1..3 |-> uploadQueue[k].id] = <<0, 1, 2>>
        /\ pc[p] \in {"loop", "setProcessing"} /\ outcomes[p] = <<>>
              => /\ Len(rendered) = Len(validFiles[p])
                 /\ \A k \in 1..Len(rendered) :
                       /\ rendered[k].name = validFiles[p][k].name
                       /\ rendered[k].status = "pending"

\* The example batch has been enqueued and rendered, and its first item is
\* about to enter 'processing'.
C8_Witness ==
    /\ pc[1] = "setProcessing"
    /\ NamesOf(files[1]) = <<Example_b_pdf, Example_a_png, Name_c_txt, Example_d_jpg>>
    /\ NamesOf(rendered) = <<Example_b_pdf, Example_a_png, Example_d_jpg>>
    /\ Statuses(uploadQueue) = <<"pending", "pending", "pending">>

C10_EmptyInputNoop ==
    [][\A p \in Calls :
          /\ (pc[p] = "idle" /\ pc'[p] # "idle" /\ files'[p] = <<>>)
                => /\ pc'[p] = "skipped"
                   /\ UNCHANGED <<uploadQueue, rendered, toasts, running,
                                  validFiles, sent, outcomes, ocrResult, queueOwner,
                                  currentDocument>>
          /\ pc[p] = "skipped"
                => /\ pc'[p] = "skipped"
                   /\ ErrorToasts(p) = {} /\ CompleteToasts(p) = {}
                   /\ validFiles'[p] = <<>> /\ sent'[p] = <<>>]_vars

\* An empty event arrived while a batch is suspended on a request.
C10_Witness ==
    \E p, q \in Calls :
        /\ pc[p] = "skipped"
        /\ pc[q] \in Awaiting
        /\ Cardinality(Processing(uploadQueue)) = 1

\* The files of the first n items of the queue q.
FilesUpTo(q, n) == [k \in 1..n |-> q[k].file]

\* C11 (SpecSingle): within one batch (no other submission during its drain),
\* an item enters 'processing' only when the item before it is 'done' or
\* 'error', and when the /upload-ocr call of an item is issued every earlier
\* item is 'done' or 'error', every later item is still 'pending' (no call
\* was issued for it), and the calls issued so far are those of items
\* 0, 1, ..., in this order.
C11_ProcessingOrder ==
    [][\A p \in Calls :
          /\ \A k \in 2..Len(uploadQueue) :
                (/\ queueOwner' = queueOwner
                 /\ uploadQueue[k].status # "processing"
                 /\ uploadQueue'[k].status = "processing")
                    => Terminal(uploadQueue[k - 1].status)
          /\ sent'[p] # sent[p]
                => /\ queueOwner = <<p>>
                   /\ uploadQueue[i[p] + 1].id = i[p]
                   /\ uploadQueue[i[p] + 1].status = "processing"
                   /\ \A k \in 1..i[p] : Terminal(uploadQueue[k].status)
                   /\ \A k \in (i[p] + 2)..Len(uploadQueue) :
                         uploadQueue[k].status = "pending"
                   /\ sent'[p] = FilesUpTo(uploadQueue, i[p] + 1)]_vars

\* The call of the third item has been issued after the first item failed and
\* the second succeeded.
C11_Witness ==
    \E p \in Calls :
        /\ pc[p] = "awaitOcr"
        /\ Len(sent[p]) = 3
        /\ outcomes[p] = <<"threw", "returned">>
        /\ Statuses(uploadQueue) = <<"error", "done", "processing">>

\* The invocations whose /upload-ocr request has been issued and has not
\* settled.
OutstandingOcr == {p \in Calls : pc[p] = "awaitOcr"}

\* C12 (Spec): over any sequence of submissions, at most one /upload-ocr
\* request issued by handleFileUpload for handleMultipleFiles is outstanding
\* in every state.
C12_OneInFlightCall ==
    Cardinality(OutstandingOcr) <= 1

\* C13 (Spec): the write of 'processing' to an item is followed, in the same
\* run of the thread, by a renderUploadQueue call, and when the /upload-ocr
\* call for an item is issued the rendered queue is the current queue and
\* shows that item, under its name, as 'processing'.
C13_PublishBeforeUpload ==
    [][\A p \in Calls :
          /\ (pc[p] = "setProcessing" /\ pc'[p] # "setProcessing")
                => /\ uploadQueue'[i[p] + 1].status = "processing"
                   /\ pc'[p] = "render247"
                   /\ running' = <<p>>
          /\ (pc[p] = "render247" /\ pc'[p] # "render247")
                => /\ rendered'[i[p] + 1].status = "processing"
                   /\ sent'[p] = sent[p]
                   /\ running' = <<p>>
          /\ sent'[p] # sent[p]
                => /\ sent'[p] = Append(sent[p], uploadQueue[i[p] + 1].file)
                   /\ rendered = renderUploadQueue(uploadQueue)
                   /\ rendered[i[p] + 1].status = "processing"
                   /\ rendered[i[p] + 1].name = uploadQueue[i[p] + 1].file.name]_vars

\* An invocation has issued the call for the third item of a queue that
\* another invocation owns, and the rendered queue shows that item as
\* 'processing'.
C13_Witness ==
    \E p \in Calls :
        /\ pc[p] = "awaitOcr"
        /\ i[p] = 2
        /\ queueOwner # <<p>>
        /\ rendered = renderUploadQueue(uploadQueue)
        /\ Len(rendered) = 3
        /\ rendered[3].status = "processing"

\* C14 (Spec): every value of uploadQueue is rendered before it is written
\* again and before the thread is released: a step that changes uploadQueue
\* starts from a queue that is the rendered one, and whenever no invocation
\* runs (control was yielded at an await or the invocation is over) the
\* rendered queue is the current queue.
C14_PublishAfterTransition ==
    [][/\ uploadQueue' # uploadQueue => rendered = renderUploadQueue(uploadQueue)
       /\ running' = <<>> => rendered' = renderUploadQueue(uploadQueue')]_vars

\* Two transitions of a three-item batch were each written and rendered, and
\* the loop is about to take the third item.
C14_Witness ==
    \E p \in Calls :
        /\ pc[p] = "setProcessing"
        /\ i[p] = 2
        /\ Statuses(rendered) = <<"done", "error", "pending">>
        /\ Statuses(uploadQueue) = <<"done", "error", "pending">>

\* The status changes of the per-item lifecycle.
LifecycleSteps ==
    { <<"pending", "processing">>, <<"processing", "done">>,
      <<"processing", "error">> }

\* C15 (Spec): the only status changes an item of uploadQueue ever undergoes
\* are pending -> processing, processing -> done and processing -> error.
C15_Lifecycle ==
    [][\A k \in 1..Len(uploadQueue) :
          (queueOwner' = queueOwner /\ k <= Len(uploadQueue')
             /\ uploadQueue'[k].status # uploadQueue[k].status)
                => <<uploadQueue[k].status, uploadQueue'[k].status>>
                      \in LifecycleSteps]_vars

\* Scheduling: an invocation that can take a step eventually takes one.  The
\* thread runs a resumed invocation to its next await, and every request that
\* was issued eventually settles; no event is ever forced to arrive.
Fairness == \A p \in Calls : WF_vars(Step(p))

SpecLive == Spec /\ Fairness

\* C16 (SpecLive): if every request that is issued eventually settles, then
\* for every accepted batch the invocation eventually emits its completion
\* toast, having attempted every file of the batch, and every item of the
\* queue it enqueued is then 'done' or 'error'.
C16_RunsToCompletion ==
    \A p \in Calls :
        (pc[p] = "render242") ~>
            (/\ pc[p] = "complete"
             /\ CompleteToasts(p) # {}
             /\ sent[p] = validFiles[p]
             /\ queueOwner = <<p>>
                   => \A k \in 1..Len(uploadQueue) : Terminal(uploadQueue[k].status))

\* C17 (Spec): the promise returned by handleMultipleFiles never rejects,
\* whatever the outcomes of the requests and whatever other submissions occur
\* while the invocation drains.
C17_NoEscape ==
    \A p \in Calls : pc[p] # "rejected"

\* The ways the /upload-ocr exchange fails: the fetch rejects, the response
\* is not ok, the body is no JSON.
OcrFailures == {"reject", "notok", "malformed"}

\* C18 (Spec): when the /upload-ocr exchange of an item fails in one of the
\* three ways, the catch of handleMultipleFiles writes 'error' to the item,
\* and the loop then goes on to the next index.
C18_FailureMapping ==
    [][\A p \in Calls :
          /\ (/\ pc[p] = "setError" /\ pc'[p] # "setError"
              /\ ocrResult[p] \in OcrFailures)
                => /\ pc'[p] = "render257"
                   /\ i[p] < Len(uploadQueue')
                   /\ uploadQueue'[i[p] + 1].status = "error"
          /\ (/\ pc[p] = "render257" /\ pc'[p] # "render257"
              /\ ocrResult[p] \in OcrFailures)
                => /\ pc'[p] = "loop"
                   /\ i'[p] = i[p] + 1
                   /\ rendered'[i[p] + 1].status = "error"]_vars

\* C19 (SpecSingle): whenever the /upload-ocr request of an item returned an
\* ok response with a parseable body, the status written for the item is
\* 'done', whichever of the fields doc_id, text, metadata, confidence and
\* category the body has.
C19_StatusOnlyOnSuccess ==
    \A p \in Calls :
        (pc[p] = "render257" /\ ocrResult[p] = "body")
            => uploadQueue[i[p] + 1].status = "done"

\* C20 (Spec): a submission that is accepted replaces uploadQueue by a queue
\* that holds exactly the filtered files of that submission, in order and all
\* 'pending', whatever the queue held before; between submissions the queue
\* keeps its length and its items' files, so it never holds an item of an
\* earlier batch and never grows.
C20_ReplacedWholesale ==
    [][/\ queueOwner' # queueOwner
            => \E p \in Calls :
                  /\ pc[p] = "enqueue"
                  /\ queueOwner' = <<p>>
                  /\ FreshQueueOf(uploadQueue', validFiles[p])
       /\ queueOwner' = queueOwner
            => /\ Len(uploadQueue') = Len(uploadQueue)
               /\ FilesUpTo(uploadQueue', Len(uploadQueue'))
                     = FilesUpTo(uploadQueue, Len(uploadQueue))]_vars

\* A one-file batch has just replaced the partly processed queue of a longer
\* batch whose invocation is still suspended.
C20_Witness ==
    \E p, q \in Calls :
        /\ pc[p] = "render242"
        /\ queueOwner = <<p>>
        /\ pc[q] \in Awaiting
        /\ i[q] >= 1
        /\ Len(validFiles[q]) > Len(uploadQueue)
        /\ FreshQueueOf(uploadQueue, validFiles[p])

\* ------------------------------------------------ size labels, on their own
\* Longest file list a change/drop event carries in SpecSize.
MaxSizeLen == 2

\* Byte lengths around every boundary of formatFileSize: the unit thresholds,
\* the rounding ties of the tenth, and the spec's three examples.
SizeValues ==
    { 0, 1, 500, 1023, 1024, 1075, 1076, 1535, 1536, 2048, 1048524, 1048525,
      1048575, 1048576, 1101004, 1101005, 5242880, 104857600 }

\* The File objects a user can select in SpecSize.
SizeFiles == { [name |-> <<"a", ".", "p", "d", "f">>, size |-> b] : b \in SizeValues }

SizeInputs == SeqsUpTo(SizeFiles, MaxSizeLen)

\* One event with any list of SizeInputs, followed until the queue with its
\* size labels is built and rendered (app.js 211-242).
NextSize ==
    \/ FileEvent(1, SizeInputs)
    \/ Filter(1) \/ Enqueue(1) \/ Render242(1)

SpecSize == Init /\ [][NextSize]_vars

\* lab is x = b/den written with one decimal, <<whole, ".", tenth, unit>>: no
\* number with one decimal is nearer to x.
OneDecimalOf(lab, b, den, unit) ==
    /\ Len(lab) = 4
    /\ lab[1] \in Nat /\ lab[2] = "." /\ lab[3] \in 0..9 /\ lab[4] = unit
    /\ LET n == 10 * lab[1] + lab[3]
       IN  /\ 2 * (10 * b - n * den) <= den
           /\ 2 * (n * den - 10 * b) <= den

\* The label the specification gives a byte length.
SizeLabelOk(lab, b) ==
    IF b < 1024 THEN lab = <<b, " B">>
    ELSE IF b < 1024 * 1024 THEN OneDecimalOf(lab, b, 1024, " KB")
    ELSE OneDecimalOf(lab, b, 1024 * 1024, " MB")

\* C21 (SpecSize): every size label of the queue is the byte length b with
\* " B" below 1024, b/1024 with one decimal and " KB" below 1024*1024, and
\* b/(1024*1024) with one decimal and " MB" otherwise; 500, 2048 and 5242880
\* give "500 B", "2.0 KB" and "5.0 MB"; and the number of a " KB" label is
\* below 1024.
C21_SizeFormatting ==
    \A k \in 1..Len(uploadQueue) :
        LET b   == uploadQueue[k].file.size
            lab == uploadQueue[k].size
        IN  /\ SizeLabelOk(lab, b)
            /\ b = 500 => lab = <<500, " B">>
            /\ b = 2048 => lab = <<2, ".", 0, " KB">>
            /\ b = 5242880 => lab = <<5, ".", 0, " MB">>
            /\ lab[Len(lab)] = " KB" => lab[1] < 1024

\* C22 (SpecSingle): within one batch (no other submission during its drain)
\* handleFileUpload is called once per enqueued item: each call is for the
\* item after those already called, whose calls have all ended, so the files
\* sent are always a prefix of the batch, no item is sent twice, failed or
\* not, and when the invocation finishes every item was sent once.
C22_NoRetry ==
    [][\A p \in Calls :
          /\ sent'[p] # sent[p]
                => /\ i[p] = Len(sent[p])
                   /\ Len(outcomes[p]) = Len(sent[p])
                   /\ sent'[p] = Append(sent[p], uploadQueue[i[p] + 1].file)
                   /\ uploadQueue[i[p] + 1].id = Len(sent[p])
          /\ Len(sent'[p]) <= Len(validFiles'[p])
          /\ sent'[p] = SubSeq(validFiles'[p], 1, Len(sent'[p]))
          /\ pc'[p] = "complete" => sent'[p] = validFiles'[p]]_vars

\* A finished batch of three whose first two calls failed: three calls were
\* made, one per item.
C22_Witness ==
    \E p \in Calls :
        /\ pc[p] = "complete"
        /\ outcomes[p] = <<"threw", "threw", "returned">>
        /\ Len(sent[p]) = 3
        /\ Statuses(uploadQueue) = <<"error", "error", "done">>

\* ------------------------------------- the other operations of the program
\* The operations of the page outside the upload pipeline: search (app.js
\* 670), RTI response (751), chat (1095), comparison (1274), compliance
\* (1347), workflow (1449) and grievance (1517).
OtherOps ==
    { "performSearch", "generateRTIResponse", "sendChatMessage",
      "compareDocuments", "checkDocumentCompliance", "trackWorkflow",
      "submitGrievance" }

\* Mutant of OtherOperation: the operation empties uploadQueue.
OtherOperation_ResetsQueue(op) ==
    /\ running = <<>>
    /\ lastOther' = op
    /\ uploadQueue' = <<>>
    /\ UNCHANGED <<currentDocument, rendered, toasts, running, pc, files,
                   validFiles, i, upFile, sumText, sent, outcomes, ocrResult,
                   queueOwner>>

\* One of the other operations runs, from its event to its end: these
\* functions read currentDocument (1117-1118) and neither assign uploadQueue
\* or currentDocument nor call a function of the upload pipeline.
OtherOperation(op) ==
    /\ running = <<>>
    /\ lastOther' = op
    /\ UNCHANGED <<uploadQueue, currentDocument, rendered, toasts, running,
                   pc, files, validFiles, i, upFile, sumText, sent, outcomes,
                   ocrResult, queueOwner>>

\* One batch at a time, with the other operations of the page running
\* whenever the thread is free.
NextFrame ==
    \/ NextSingle
    \/ \E op \in OtherOps : OtherOperation(op)

SpecFrame == Init /\ [][NextFrame]_vars

\* The positions of handleMultipleFiles that write uploadQueue or a status
\* (app.js 234, 246, 251, 253).
QueueWriters == {"enqueue", "setProcessing", "setDone", "setError"}

\* C23 (SpecFrame): uploadQueue and its items' statuses change only in steps
\* of handleMultipleFiles itself; the steps of handleFileUpload (the settling
\* of its requests), renderUploadQueue and the other operations of the page
\* leave uploadQueue as it is.
C23_SingleWriter ==
    [][/\ uploadQueue' # uploadQueue
            => \E p \in Calls : running = <<p>> /\ pc[p] \in QueueWriters
       /\ lastOther' # lastOther => uploadQueue' = uploadQueue
       /\ rendered' # rendered => uploadQueue' = uploadQueue
       /\ \A p \in Calls :
             (pc[p] \in Awaiting \cup {"callUpload"} /\ pc'[p] # pc[p])
                => uploadQueue' = uploadQueue]_vars

\* Another operation of the page ran and handleFileUpload has stored a
\* document for the second item, while the queue still shows that item as
\* 'processing'.
C23_Witness ==
    \E p \in Calls :
        /\ pc[p] = "awaitSum"
        /\ i[p] = 1
        /\ lastOther = "checkDocumentCompliance"
        /\ currentDocument.docId # <<>>
        /\ Statuses(uploadQueue) = <<"error", "processing", "pending">>

\* The fields of an item other than its status.
IdentityOf(item) == <<item.id, item.file, item.name, item.size>>

\* C24 (Spec): from the enqueue of a batch to the next enqueue every item of
\* uploadQueue keeps its id, file, name and size label, whatever is written to
\* its status; the id is the item's position, the file is the file the caller
\* passed at that position of the filtered list, and name and size label are
\* those of this file.
C24_IdentityFixed ==
    [][/\ queueOwner' = queueOwner
            => /\ Len(uploadQueue') = Len(uploadQueue)
               /\ \A k \in 1..Len(uploadQueue) :
                     IdentityOf(uploadQueue'[k]) = IdentityOf(uploadQueue[k])
       /\ \A p \in Calls :
             queueOwner' = <<p>>
                => \A k \in 1..Len(uploadQueue') :
                      /\ uploadQueue'[k].id = k - 1
                      /\ uploadQueue'[k].file = validFiles'[p][k]
                      /\ uploadQueue'[k].name = validFiles'[p][k].name
                      /\ uploadQueue'[k].size =
                            formatFileSize(validFiles'[p][k].size)]_vars

\* Every status of a three-item queue has been written twice, by its own
\* invocation, and the items still carry ids 0, 1, 2 and the caller's files.
C24_Witness ==
    \E p \in Calls :
        /\ pc[p] = "complete"
        /\ queueOwner = <<p>>
        /\ Statuses(uploadQueue) = <<"done", "done", "error">>
        /\ [k \in 1..3 |-> uploadQueue[k].id] = <<0, 1, 2>>
        /\ FilesUpTo(uploadQueue, 3) = validFiles[p]

\* q is a run of 'done'/'error' items, then at most one 'processing' item,
\* then a run of 'pending' items.
QueueShape(q) ==
    \E a \in 0..Len(q) : \E b \in {a, a + 1} :
        /\ b <= Len(q)
        /\ \A k \in 1..a : Terminal(q[k].status)
        /\ \A k \in (a + 1)..b : q[k].status = "processing"
        /\ \A k \in (b + 1)..Len(q) : q[k].status = "pending"

\* C25 (SpecSingle): with no overlapping submission, uploadQueue always
\* consists of zero or more 'done'/'error' items, then at most one
\* 'processing' item, then zero or more 'pending' items, and so does every
\* rendered queue.
C25_QueueShape ==
    QueueShape(uploadQueue) /\ QueueShape(rendered)

\* Between two items: two resolved items, none in flight, one waiting.
C25_Witness ==
    \E p \in Calls :
        /\ pc[p] = "loop"
        /\ i[p] = 2
        /\ Statuses(uploadQueue) = <<"error", "done", "pending">>
        /\ Statuses(rendered) = <<"error", "done", "pending">>

\* C26 (Spec): also when submissions overlap, each invocation sends to
\* /upload-ocr the files of its own batch only, in order and once each, and
\* when it is over it has sent every file of its batch: no file of either
\* batch is lost and none is sent twice.
C26_NoLostNoDuplicate ==
    \A p \in Calls :
        /\ Len(sent[p]) <= Len(validFiles[p])
        /\ sent[p] = SubSeq(validFiles[p], 1, Len(sent[p]))
        /\ pc[p] \in {"complete", "rejected"} => sent[p] = validFiles[p]

\* C27 (SpecLive): also when a second batch, of any length, is submitted
\* while the first drains, every invocation that accepted a batch eventually
\* returns normally, having emitted its completion toast; none ends with an
\* uncaught exception.
C27_OverlapCompletes ==
    \A p \in Calls :
        (pc[p] = "render242") ~>
            (pc[p] = "complete" /\ Cardinality(CompleteToasts(p)) = 1)

\* C28 (Spec): the number carried by the completion toast of an invocation
\* is the number of loop iterations, that is of handleFileUpload calls, the
\* invocation performed, also when another submission replaced uploadQueue
\* during its drain.
C28_CountMatchesWork ==
    \A p \in Calls :
        \A t \in CompleteToasts(p) :
            /\ toasts[t].n = Len(sent[p])
            /\ toasts[t].n = Len(outcomes[p])

\* C29 (SpecSingle): the processing of an item that ends in 'error' leaves
\* currentDocument (docId, text, summaries, category) as it was when the
\* processing began: no step from the call of handleFileUpload to the point
\* where it throws changes currentDocument.
C29_UnchangedOnError ==
    [][\A p \in Calls :
          (/\ pc[p] \in {"callUpload", "awaitOcr", "awaitOcrJson"}
           /\ pc'[p] \in {"awaitOcr", "awaitOcrJson", "setError"})
              => currentDocument' = currentDocument]_vars

\* The positions at which handleFileUpload waits for /summarize-all or
\* /extract.
FollowUps == {"awaitSum", "awaitSumJson", "awaitExt", "awaitExtJson"}

\* C30 (Spec): once the /upload-ocr call and the display of its result have
\* succeeded, no outcome of the /summarize-all and /extract requests (a
\* rejection, any response, an unparsable body) makes handleFileUpload throw,
\* and the item is then written 'done'.
C30_FollowUpsDoNotFail ==
    [][\A p \in Calls :
          /\ (pc[p] \in FollowUps /\ pc'[p] # pc[p])
                => pc'[p] \in FollowUps \cup {"setDone"}
          /\ (pc[p] = "setDone" /\ pc'[p] # "setDone")
                => /\ pc'[p] = "render257"
                   /\ uploadQueue'[i[p] + 1].status = "done"]_vars

\* C31 (Spec): an item leaves 'processing' only when no /summarize-all or
\* /extract request is outstanding, and no /upload-ocr request is outstanding
\* while a /summarize-all or /extract request is.
C31_FollowUpsInCriticalSection ==
    [][/\ \A k \in 1..Len(uploadQueue) :
             (/\ queueOwner' = queueOwner
              /\ uploadQueue[k].status = "processing"
              /\ uploadQueue'[k].status # "processing")
                 => \A q \in Calls : pc'[q] \notin FollowUps
       /\ \A p, q \in Calls :
             ~(pc'[p] \in {"awaitOcr", "awaitOcrJson"} /\ pc'[q] \in FollowUps)]_vars

\* C32 (SpecSingle): whenever an item has just become 'done',
\* currentDocument.summaries are the summaries produced for
\* currentDocument.text, the text of that item.
C32_SummariesMatchDocument ==
    [][\A k \in 1..Len(uploadQueue) :
          (/\ queueOwner' = queueOwner
           /\ uploadQueue[k].status # "done"
           /\ uploadQueue'[k].status = "done")
             => currentDocument'.summaries =
                    [kind |-> "summary", of |-> currentDocument'.text]]_vars

\* C33 (SpecFilter): a file whose name contains no "." character is never
\* enqueued by handleMultipleFiles.
C33_NoExtensionRejected ==
    \A k \in 1..Len(uploadQueue) : LastDot(uploadQueue[k].name) > 0

====
